---------------------------- MODULE Spec2Model ----------------------------
(***************************************************************************)
(* Indoor climate monitor: the rotating segment writer                     *)
(* (src/collector/collect-dirigera.py) and the windowed reader             *)
(* (src/web/server.py).                                                    *)
(*                                                                         *)
(* Time is an integer count of clock units.  A calendar day has DayLen     *)
(* units; an instant t is on day Day(t) at time-of-day Tod(t).  The        *)
(* strftime/isoformat encodings keep their shape at this scale: a          *)
(* fixed-width, zero-padded day field and a fixed-width time field, as     *)
(* text.  Text is a sequence of ASCII codes, so that prefix tests, splits  *)
(* and lexical comparisons are computed as Python computes them.           *)
(***************************************************************************)
EXTENDS Integers, Sequences, FiniteSets, TLC

(***************************************************************************)
(* Bounds of the model.                                                    *)
(***************************************************************************)
DayLen == 2
FirstDay == 9
Horizon == 5
ShortHorizon == 3
MaxRows == 2
MaxLag == 1
MaxFaults == 1

(***************************************************************************)
(* Program constants, scaled to clock units.                               *)
(***************************************************************************)
Interval == 1

SecondsPerCycle == DayLen

Epoch == FirstDay * DayLen
MaxTime == Epoch + Horizon
ShortMaxTime == Epoch + ShortHorizon

Day(t) == t \div DayLen
Tod(t) == t % DayLen

(***************************************************************************)
(* Text.                                                                   *)
(***************************************************************************)
SensorPrefix == <<115, 101, 110, 115, 111, 114, 95>>
JsonSuffix == <<46, 106, 115, 111, 110>>
TmpPrefix == <<46, 116, 109, 112, 95, 106, 115, 111, 110, 95>>
Underscore == <<95>>
LetterT == <<84>>
LetterZ == <<90>>

Pad2(n) == <<48 + (n \div 10), 48 + (n % 10)>>

\* strptime matches its fields with regular expressions in which \d is any
\* Unicode decimal digit: the code points of the digit zero of each script
DigitZeros ==
    {48, 1632, 1776, 1984, 2406, 2534, 2662, 2790, 2918, 3046, 3174, 3302,
     3430, 3558, 3664, 3792, 3872, 4160, 4240, 6112, 6160, 6470, 6608,
     6784, 6800, 6992, 7088, 7232, 7248, 42528, 43216, 43264, 43472, 43504,
     43600, 44016, 65296, 66720, 68912, 69734, 69872, 69942, 70096, 70384,
     70736, 70864, 71248, 71360, 71472, 71904, 72016, 72784, 73040, 73120,
     92768, 92864, 93008, 120782, 120792, 120802, 120812, 120822, 123200,
     123632, 125264, 130032}

IsDigit(c) == \E z \in DigitZeros : c \in z..(z + 9)

\* a digit the expressions name by range ([1-9], [0-1], ...): ASCII only
IsAscii(c, lo, hi) == c \in (48 + lo)..(48 + hi)

DigitValue(c) == c - (CHOOSE z \in DigitZeros : c \in z..(z + 9))

\* the day field, %d:  3[0-1] | [1-2]\d | 0[1-9] | [1-9] | space [1-9]
MatchesDay(s) ==
    \/ /\ Len(s) = 2
       /\ \/ IsAscii(s[1], 3, 3) /\ IsAscii(s[2], 0, 1)
          \/ IsAscii(s[1], 1, 2) /\ IsDigit(s[2])
          \/ IsAscii(s[1], 0, 0) /\ IsAscii(s[2], 1, 9)
          \/ s[1] = 32 /\ IsAscii(s[2], 1, 9)
    \/ Len(s) = 1 /\ IsAscii(s[1], 1, 9)

\* the hour field, %H:  2[0-3] | [0-1]\d | \d
MatchesHour(s) ==
    \/ /\ Len(s) = 2
       /\ \/ IsAscii(s[1], 2, 2) /\ IsAscii(s[2], 0, 3)
          \/ IsAscii(s[1], 0, 1) /\ IsDigit(s[2])
    \/ Len(s) = 1 /\ IsDigit(s[1])

\* int() of a matched field
Num(s) ==
    IF Len(s) = 1 THEN DigitValue(s[1])
    ELSE (IF s[1] = 32 THEN 0 ELSE DigitValue(s[1])) * 10 + DigitValue(s[2])

StartsWith(s, p) == Len(s) >= Len(p) /\ SubSeq(s, 1, Len(p)) = p

EndsWith(s, p) == Len(s) >= Len(p) /\ SubSeq(s, Len(s) - Len(p) + 1, Len(s)) = p

\* Python's str comparison: by code point, a proper prefix sorts first.
LexLess(a, b) ==
    \E k \in 1..(Len(b)) :
        /\ \A i \in 1..(k - 1) : i <= Len(a) /\ a[i] = b[i]
        /\ k - 1 <= Len(a)
        /\ (k > Len(a) \/ a[k] < b[k])

LexLeq(a, b) == a = b \/ LexLess(a, b)

StrftimeTimeOnly(t) == Pad2(0) \o Underscore \o Pad2(Tod(t))

\* cycle_start.strftime('%Y%m%d_%H%M%S')
Strftime(t) == Pad2(Day(t)) \o Underscore \o Pad2(Tod(t))

\* f"data/sensor_{...}.json", the name inside the data folder
SegmentName(t) == SensorPrefix \o Strftime(t) \o JsonSuffix

\* datetime.utcnow().replace(microsecond=0).isoformat() + "Z"
IsoFormatZ(t) == Pad2(Day(t)) \o LetterT \o Pad2(Tod(t)) \o LetterZ

BadTime == 0 - 1

\* datetime.strptime(s, "%Y-%m-%dT%H:%M:%SZ"), year and month taken as
\* fixed: a day field, the letter T, an hour field, the letter Z, nothing
\* before or after; the letters match in either case (the expression is
\* compiled with IGNORECASE).  Anything else is a ValueError (BadTime).
StrptimeTs(s) ==
    LET n == Len(s)
        cuts == {i \in 2..3 :
                   /\ i < n - 1
                   /\ s[i] \in {84, 116}
                   /\ MatchesDay(SubSeq(s, 1, i - 1))
                   /\ MatchesHour(SubSeq(s, i + 1, n - 1))}
    IN  IF n >= 4 /\ s[n] \in {90, 122} /\ cuts # {}
        THEN LET i == CHOOSE j \in cuts : TRUE
                 d == Num(SubSeq(s, 1, i - 1))
                 h == Num(SubSeq(s, i + 1, n - 1))
             IN  IF h < DayLen THEN d * DayLen + h ELSE BadTime
        ELSE BadTime

\* filename.split('_')[1]
DatePart(name) ==
    LET us == {i \in 1..Len(name) : name[i] = 95}
        first == CHOOSE i \in us : \A j \in us : i <= j
        later == {i \in us : i > first}
        stop == IF later = {} THEN Len(name) + 1
                ELSE CHOOSE i \in later : \A j \in later : i <= j
    IN  SubSeq(name, first + 1, stop - 1)

\* datetime.strptime(date_part, "%Y%m%d").date(); BadTime for a ValueError
FileDate(name) ==
    LET p == DatePart(name)
    IN  IF MatchesDay(p) THEN Num(p) ELSE BadTime


(***************************************************************************)
(* Python values and JSON text.  A value is a record [k, v]: k is the      *)
(* type, v the payload as a sequence.                                       *)
(***************************************************************************)
PyNone == [k |-> "None", v |-> <<>>]
PyFloat(x) == [k |-> "float", v |-> <<x>>]
PyStr(s) == [k |-> "str", v |-> s]

JsonNull == [k |-> "null", v |-> <<>>]
JsonNumber(x) == [k |-> "number", v |-> <<x>>]
JsonString(s) == [k |-> "string", v |-> s]

\* json.dump of one value
JsonDumpValue(p) ==
    IF p.k = "None" THEN JsonNull
    ELSE IF p.k = "float" THEN JsonNumber(p.v[1])
    ELSE JsonString(p.v)

\* json.load of one value
JsonLoadValue(j) ==
    IF j.k = "null" THEN PyNone
    ELSE IF j.k = "number" THEN PyFloat(j.v[1])
    ELSE PyStr(j.v)

JsonDumpRow(r) == [f \in DOMAIN r |-> JsonDumpValue(r[f])]
JsonLoadRow(r) == [f \in DOMAIN r |-> JsonLoadValue(r[f])]

JsonDumpRows(rows) == [i \in 1..Len(rows) |-> JsonDumpRow(rows[i])]
JsonLoadRows(rows) == [i \in 1..Len(rows) |-> JsonLoadRow(rows[i])]

(***************************************************************************)
(* Files.  A file holds either the text of a JSON list of objects or text  *)
(* that json.load rejects (empty, truncated, damaged).                     *)
(***************************************************************************)
Unparsable == [kind |-> "garbage", rows |-> <<>>]
ListFile(rows) == [kind |-> "list", rows |-> rows]
Absent == [kind |-> "absent", rows |-> <<>>]

Content(fs, name) == IF name \in DOMAIN fs THEN fs[name] ELSE Absent

\* the directory with file `name` holding `c`
WithFile(fs, name, c) ==
    [n \in DOMAIN fs \cup {name} |-> IF n = name THEN c ELSE fs[n]]

WithoutFile(fs, name) == [n \in DOMAIN fs \ {name} |-> fs[n]]

\* shutil.move(src, dst) on one filesystem: rename, replacing dst
Rename(fs, src, dst) ==
    IF src = dst THEN fs
    ELSE [n \in (DOMAIN fs \ {src}) \cup {dst} |->
             IF n = dst THEN fs[src] ELSE fs[n]]

IsSegmentName(name) == StartsWith(name, SensorPrefix) /\ EndsWith(name, JsonSuffix)

(***************************************************************************)
(* The sensor collaborator: what the attributes hold at a sample.          *)
(***************************************************************************)
Unset == [k |-> "None", v |-> <<>>]
Steady ==
    { [current_temperature |-> PyFloat(21), current_r_h |-> PyFloat(45),
       battery_percentage |-> Unset] }
Samples ==
    { [current_temperature |-> PyFloat(0), current_r_h |-> Unset,
       battery_percentage |-> PyFloat(100)],
      [current_temperature |-> Unset, current_r_h |-> PyFloat(45),
       battery_percentage |-> Unset] }

FloatOrZero(x) == IF x.k = "float" THEN x ELSE PyFloat(0)

\* float(x) inside try/except Exception: None when the conversion raises
FloatOrNone(x) == IF x.k = "float" THEN x ELSE PyNone

\* read_sensor_values(sensor) at clock reading t
read_sensor_values(t, attrs) ==
    [ts |-> PyStr(IsoFormatZ(t)),
     temperature_c |-> FloatOrNone(attrs.current_temperature),
     humidity_rh |-> FloatOrNone(attrs.current_r_h),
     battery_percentage |-> FloatOrNone(attrs.battery_percentage)]

(***************************************************************************)
(* load_data(start_dt, end_dt) over a directory fs.                        *)
(***************************************************************************)
RECURSIVE SortedNames(_)
SortedNames(S) ==
    IF S = {} THEN <<>>
    ELSE LET m == CHOOSE x \in S : \A y \in S : LexLeq(x, y)
         IN  <<m>> \o SortedNames(S \ {m})

\* step 2: the candidate files, in sorted(all_files) order
IsCandidate(name, start_dt, end_dt) ==
    /\ IsSegmentName(name)
    /\ FileDate(name) # BadTime
    /\ Day(start_dt - DayLen) <= FileDate(name)
    /\ FileDate(name) <= Day(end_dt)

RelevantFiles(fs, start_dt, end_dt) ==
    SortedNames({n \in DOMAIN fs : IsCandidate(n, start_dt, end_dt)})

\* step 3, one file: json.load + extend; a file that fails to load adds nothing
LoadFile(c) == IF c.kind = "list" THEN JsonLoadRows(c.rows) ELSE <<>>

ExtendOrReset(combined, c) ==
    IF c.kind = "list" THEN combined \o LoadFile(c) ELSE <<>>

\* lines 52-57, one pass of the loop: the rows of a file that loads are
\* added, a file that does not load adds nothing
Extend(combined, c) == combined \o LoadFile(c)

RECURSIVE CombinedData(_, _)
CombinedData(fs, names) ==
    IF names = <<>> THEN <<>>
    ELSE LoadFile(Content(fs, Head(names))) \o CombinedData(fs, Tail(names))

\* entry['ts'] raises KeyError, strptime of a non-string raises TypeError:
\* neither is the ValueError the loop catches
EntryRaises(e) == "ts" \notin DOMAIN e \/ e.ts.k # "str"

EntryInRange(e, start_dt, end_dt) ==
    LET t == StrptimeTs(e.ts.v)
    IN  t # BadTime /\ start_dt <= t /\ t <= end_dt

\* step 4
FilteredData(combined, start_dt, end_dt) ==
    SelectSeq(combined, LAMBDA e : EntryInRange(e, start_dt, end_dt))

Unsorted(rows) == rows

\* list.sort(key=lambda x: x['ts']): stable, by the ts text
RECURSIVE SortByTs(_)
SortByTs(rows) ==
    IF rows = <<>> THEN <<>>
    ELSE LET n == Len(rows)
             init == SortByTs(SubSeq(rows, 1, n - 1))
             e == rows[n]
             keep == {i \in 1..Len(init) : LexLeq(init[i].ts.v, e.ts.v)}
             at == IF keep = {} THEN 0
                   ELSE CHOOSE i \in keep : \A j \in keep : j <= i
         IN  SubSeq(init, 1, at) \o <<e>> \o SubSeq(init, at + 1, Len(init))

Raised == [status |-> "error", rows |-> <<>>]
Returned(rows) == [status |-> "ok", rows |-> rows]

\* steps 4 and 5 on the merged rows
FilterAndSort(combined, start_dt, end_dt) ==
    IF \E i \in 1..Len(combined) : EntryRaises(combined[i])
    THEN Raised
    ELSE Returned(SortByTs(FilteredData(combined, start_dt, end_dt)))

load_data(fs, start_dt, end_dt) ==
    FilterAndSort(CombinedData(fs, RelevantFiles(fs, start_dt, end_dt)),
                  start_dt, end_dt)

(***************************************************************************)
(* State.                                                                  *)
(*   clock        the wall clock (datetime.utcnow())                       *)
(*   files        the data folder: file name -> content                    *)
(*   wpc ..tmp    main_loop: position and locals                           *)
(*   faults       kills, external damage and I/O errors so far             *)
(*   q            the value the last load_data call returned               *)
(*   rpc ..rseen  a load_data call in progress, file by file               *)
(*   rlog, rbase  history, for the properties only: what that call read,   *)
(*                and what had been appended when it began; the finished   *)
(*                call's are kept in q.log and q.base                      *)
(*   pre, cur, appended, dropped, crash, spoiled   history, for the        *)
(*                properties only                                          *)
(*   store_plots  main_loop's argument                                     *)
(*   handoffs     the plot_day calls made so far, in order                 *)
(*   closed, halt history, for the properties only: the segments rotated   *)
(*                away from, and what an interrupt found                   *)
(***************************************************************************)
VARIABLES clock, files, wpc, now, cycle_start, json_path, sensor, payload,
          tmp, faults, q, rpc, rwin, rnames, rcombined, rseen, rlog,
          rbase, pre, cur, appended, dropped, crash, spoiled,
          store_plots, handoffs, closed, halt

wvars == <<wpc, now, cycle_start, json_path, sensor, payload, tmp>>
rvars == <<rpc, rwin, rnames, rcombined, rseen, rlog, rbase>>
hvars == <<pre, cur, appended, dropped, crash, spoiled>>
pvars == <<store_plots, handoffs, closed, halt>>
vars == <<clock, files, wvars, faults, q, rvars, hvars, pvars>>

NoBase == [appended |-> {}, active |-> <<>>]
NoQuery == [start |-> 0, stop |-> 0, out |-> [status |-> "none", rows |-> <<>>],
            base |-> NoBase, log |-> <<>>]
NoName == <<>>
NoSample == [t |-> BadTime, attrs |-> [current_temperature |-> Unset,
             current_r_h |-> Unset, battery_percentage |-> Unset]]
NoCrash == [seg |-> NoName, found |-> Absent, before |-> Absent, after |-> Absent]
NoHalt == [at |-> "none", seg |-> NoName, found |-> Absent, before |-> Absent,
           after |-> Absent]
NoSeen == [name |-> NoName, content |-> Absent, inflight |-> FALSE,
           before |-> Absent, after |-> Absent]

Times == Epoch..MaxTime
ShortTimes == Epoch..ShortMaxTime

\* main_loop is entered
Start ==
    /\ clock \in Epoch..(Epoch + DayLen - 1)
    /\ files = <<>>
    /\ wpc = "boot"
    /\ now = clock
    /\ cycle_start = clock
    /\ json_path = NoName
    /\ sensor = FALSE
    /\ payload = <<>>
    /\ tmp = NoName
    /\ faults = 0
    /\ q = NoQuery
    /\ rpc = "idle"
    /\ rwin = <<0, 0>>
    /\ rnames = <<>>
    /\ rcombined = <<>>
    /\ rseen = NoSeen
    /\ rlog = <<>>
    /\ rbase = NoBase
    /\ pre = Absent
    /\ cur = NoSample
    /\ appended = {}
    /\ dropped = {}
    /\ crash = NoCrash
    /\ spoiled = {}
    /\ handoffs = <<>>
    /\ closed = {}
    /\ halt = NoHalt

\* store_plots keeps its default, as in the call under __main__
Init == Start /\ store_plots = FALSE

(***************************************************************************)
(* main_loop.                                                              *)
(***************************************************************************)
\* lines 193-198
Boot ==
    /\ wpc = "boot"
    /\ cycle_start' = clock
    /\ json_path' = SegmentName(clock)
    /\ sensor' = FALSE
    /\ wpc' = "top"
    /\ q' = NoQuery
    /\ UNCHANGED <<pvars, clock, files, now, payload, tmp, faults, rvars, hvars>>

\* lines 202-205 and 210: the sensor is held already, or find_sensor finds it
TopResolved ==
    /\ wpc = "top"
    /\ now' = clock
    /\ sensor' = TRUE
    /\ wpc' = "acquire"
    /\ q' = NoQuery
    /\ UNCHANGED <<pvars, clock, files, cycle_start, json_path, payload, tmp, faults,
                   rvars, hvars>>

UnresolvedEndsLoop == "dead"

UnresolvedChecksRotation == "rotate"

\* lines 205-208: without a sensor the tick sleeps and continues
AfterUnresolved == "sleep"

\* lines 202-208: find_sensor returns None; sleep and continue
TopUnresolved ==
    /\ wpc = "top"
    /\ ~sensor
    /\ now' = clock
    /\ wpc' = AfterUnresolved
    /\ q' = NoQuery
    /\ UNCHANGED <<pvars, clock, files, cycle_start, json_path, sensor, payload, tmp,
                   faults, rvars, hvars>>

\* tempfile.mkstemp(dir=dname, prefix=".tmp_json_"): a name not in use
FreshTmp(fs) ==
    LET used == {n \in DOMAIN fs : StartsWith(n, TmpPrefix)}
    IN  TmpPrefix \o <<48 + Cardinality(used)>>

WriteInPlace(path, tmpname) == path

\* atomic_write_json writes the new content to the temporary file
WriteTarget(path, tmpname) == tmpname

LoadOrNull(c, readable) ==
    IF readable /\ c.kind = "list" THEN JsonLoadRows(c.rows) ELSE <<[ts |-> PyNone]>>

\* append_reading lines 94-102: the existing list, or [] when the file is
\* missing, when open() or the read raises (readable is false), or when the
\* text does not load
LoadExisting(c, readable) ==
    IF readable /\ c.kind = "list" THEN JsonLoadRows(c.rows) ELSE <<>>

\* lines 212-214 up to mkstemp (line 79): the hub is asked again, the values
\* are read at a fresh clock reading, the existing list is loaded and the
\* reading appended to it in memory, and the temporary file is created empty
Acquire(lim, hub) ==
    /\ wpc = "acquire"
    /\ \E d \in 0..MaxLag, attrs \in hub :
          /\ clock + d <= lim
          /\ clock' = clock + d
          /\ cur' = [t |-> clock', attrs |-> attrs]
          /\ payload' = Append(LoadExisting(Content(files, json_path), TRUE),
                               read_sensor_values(clock', attrs))
    /\ pre' = Content(files, json_path)
    /\ tmp' = WriteTarget(json_path, FreshTmp(files))
    /\ files' = WithFile(files, tmp', Unparsable)
    /\ wpc' = "dump"
    /\ q' = NoQuery
    /\ UNCHANGED <<pvars, now, cycle_start, json_path, sensor, faults, rvars,
                   appended, dropped, crash, spoiled>>

\* the same lines when the file of the segment exists (line 94) and open()
\* or the read raises (lines 96-97, an OSError): line 98 catches it, the
\* list starts from [] and the append goes on
AcquireReadFail(lim, hub) ==
    /\ wpc = "acquire"
    /\ faults < MaxFaults
    /\ faults' = faults + 1
    /\ Content(files, json_path).kind # "absent"
    /\ \E d \in 0..MaxLag, attrs \in hub :
          /\ clock + d <= lim
          /\ clock' = clock + d
          /\ cur' = [t |-> clock', attrs |-> attrs]
          /\ payload' = Append(LoadExisting(Content(files, json_path), FALSE),
                               read_sensor_values(clock', attrs))
    /\ pre' = Content(files, json_path)
    /\ tmp' = WriteTarget(json_path, FreshTmp(files))
    /\ files' = WithFile(files, tmp', Unparsable)
    /\ wpc' = "dump"
    /\ q' = NoQuery
    /\ UNCHANGED <<pvars, now, cycle_start, json_path, sensor, rvars,
                   appended, dropped, crash, spoiled>>

\* lines 81-82: json.dump and close; the text is complete once closed
Dump ==
    /\ wpc = "dump"
    /\ files' = [files EXCEPT ![tmp] = ListFile(JsonDumpRows(payload))]
    /\ wpc' = "move"
    /\ q' = NoQuery
    /\ UNCHANGED <<pvars, clock, now, cycle_start, json_path, sensor, payload, tmp,
                   faults, rvars, hvars>>

\* line 83, then line 215
Move ==
    /\ wpc = "move"
    /\ files' = Rename(files, tmp, json_path)
    /\ appended' = appended \cup {[seg |-> json_path, t |-> cur.t, attrs |-> cur.attrs]}
    /\ tmp' = NoName
    /\ wpc' = "rotate"
    /\ q' = NoQuery
    /\ UNCHANGED <<pvars, clock, now, cycle_start, json_path, sensor, payload, faults,
                   rvars, pre, cur, dropped, crash, spoiled>>

\* lines 216-217: `except Exception` logs and falls through to the rotation check
OnTickException == "rotate"

\* lines 84-89
Cleanup(fs, tmpname, path) ==
    IF tmpname = path \/ tmpname \notin DOMAIN fs THEN fs ELSE WithoutFile(fs, tmpname)

\* lines 84-89 as the write is left by an exception: the temporary file is
\* removed, or stays when os.remove fails too (the failure is swallowed)
AfterFinally(fs, tmpname, path) == {Cleanup(fs, tmpname, path), fs}

\* lines 212-213, then an OSError out of os.makedirs (line 77) or
\* tempfile.mkstemp (line 79): the values were read, no temporary file was
\* made, and line 216 catches the exception
AcquireFail(lim, hub) ==
    /\ wpc = "acquire"
    /\ faults < MaxFaults
    /\ faults' = faults + 1
    /\ \E d \in 0..MaxLag, attrs \in hub :
          /\ clock + d <= lim
          /\ clock' = clock + d
          /\ cur' = [t |-> clock', attrs |-> attrs]
    /\ pre' = Content(files, json_path)
    /\ dropped' = dropped \cup {cur'.t}
    /\ payload' = <<>>
    /\ tmp' = NoName
    /\ wpc' = OnTickException
    /\ q' = NoQuery
    /\ UNCHANGED <<pvars, files, now, cycle_start, json_path, sensor, rvars,
                   appended, crash, spoiled>>

\* line 83 raising.  shutil.move tries os.rename and, when that raises
\* OSError, copies the temporary file onto the destination and unlinks it:
\* the folder is as before (the rename and the opening of the destination
\* failed), or the destination holds the new text (the copy was made, the
\* unlink raised), or the destination was truncated and holds a part of the
\* text (the copy raised)
MoveRaised(fs, tmpname, path) ==
    {fs, WithFile(fs, path, fs[tmpname]), WithFile(fs, path, Unparsable)}

\* lines 81-83 raising: json.dump leaves the folder as it is, shutil.move
\* as above
WriteRaised(at, fs, tmpname, path) ==
    IF at = "move" THEN MoveRaised(fs, tmpname, path) ELSE {fs}

\* an OSError out of the write or the move (disk full, permission denied),
\* the finally block, and line 216
WriteFail ==
    /\ wpc \in {"dump", "move"}
    /\ faults < MaxFaults
    /\ faults' = faults + 1
    /\ \E g \in WriteRaised(wpc, files, tmp, json_path) :
          files' \in AfterFinally(g, tmp, json_path)
    /\ spoiled' = IF Content(files', json_path).kind = "garbage"
                  THEN spoiled \cup {json_path} ELSE spoiled
    /\ dropped' = dropped \cup {cur.t}
    /\ payload' = <<>>
    /\ tmp' = NoName
    /\ wpc' = OnTickException
    /\ q' = NoQuery
    /\ UNCHANGED <<pvars, clock, now, cycle_start, json_path, sensor, rvars, pre, cur,
                   appended, crash>>

ShouldRotateStrict(n, cs) == (n - cs) > SecondsPerCycle

\* line 220
ShouldRotate(n, cs) == (n - cs) >= SecondsPerCycle

\* line 226: cycle_start = datetime.utcnow()
NextCycleStart(n, clk) == clk

\* lines 221-224 and 235-236: one call of plot_day on a segment, for the
\* cycle's plot or the final one, returning or raising
PlotCall(seg, kind, ok) == [seg |-> seg, kind |-> kind, ok |-> ok]

\* lines 220-228, the branch taken; plot_day, when called, returns
RotateYes(lim) ==
    /\ wpc = "rotate"
    /\ ShouldRotate(now, cycle_start)
    /\ \E d \in 0..MaxLag :
          /\ clock + d <= lim
          /\ clock' = clock + d
    /\ cycle_start' = NextCycleStart(now, clock')
    /\ json_path' = SegmentName(cycle_start')
    /\ handoffs' = IF store_plots
                   THEN Append(handoffs, PlotCall(json_path, "cycle", TRUE))
                   ELSE handoffs
    /\ closed' = closed \cup {json_path}
    /\ payload' = <<>>
    /\ wpc' = "sleep"
    /\ q' = NoQuery
    /\ UNCHANGED <<store_plots, halt, files, now, sensor, tmp, faults, rvars, hvars>>

\* lines 224 and 232: an exception out of plot_day is caught by nothing in
\* main_loop, whose only handler is for KeyboardInterrupt
OnPlotException == "dead"

\* lines 220-224: the rotation is due and plot_day raises (savefig or
\* makedirs fails)
PlotFail ==
    /\ wpc = "rotate"
    /\ ShouldRotate(now, cycle_start)
    /\ store_plots
    /\ handoffs' = Append(handoffs, PlotCall(json_path, "cycle", FALSE))
    /\ payload' = <<>>
    /\ wpc' = OnPlotException
    /\ q' = NoQuery
    /\ UNCHANGED <<clock, files, now, cycle_start, json_path, sensor, tmp,
                   faults, rvars, hvars, store_plots, closed, halt>>

\* line 220, the branch not taken
RotateNo ==
    /\ wpc = "rotate"
    /\ ~ShouldRotate(now, cycle_start)
    /\ payload' = <<>>
    /\ wpc' = "sleep"
    /\ q' = NoQuery
    /\ UNCHANGED <<pvars, clock, files, now, cycle_start, json_path, sensor, tmp,
                   faults, rvars, hvars>>

\* lines 207 and 230: time.sleep(interval_seconds) takes at least the interval
Sleep(lim) ==
    /\ wpc = "sleep"
    /\ \E d \in 0..MaxLag :
          /\ clock + Interval + d <= lim
          /\ clock' = clock + Interval + d
    /\ wpc' = "top"
    /\ q' = NoQuery
    /\ UNCHANGED <<pvars, files, now, cycle_start, json_path, sensor, payload, tmp,
                   faults, rvars, hvars>>

(***************************************************************************)
(* The environment.                                                        *)
(***************************************************************************)
AppendInFlight == wpc \in {"dump", "move"} \/ (wpc = "rotate" /\ payload # <<>>)

\* the process is killed (no handler, no finally runs) and started again
Kill ==
    /\ wpc \notin {"boot", "dead"}
    /\ faults < MaxFaults
    /\ faults' = faults + 1
    /\ crash' = IF AppendInFlight
                THEN [seg |-> json_path, found |-> Content(files, json_path),
                      before |-> pre, after |-> ListFile(JsonDumpRows(payload))]
                ELSE crash
    /\ wpc' = "boot"
    /\ payload' = <<>>
    /\ tmp' = NoName
    /\ sensor' = FALSE
    /\ q' = NoQuery
    /\ UNCHANGED <<pvars, clock, files, now, cycle_start, json_path, rvars, pre, cur,
                   appended, dropped, spoiled>>

\* lines 234-236: the final plot_day call, made only with store_plots; it
\* returns, or raises and main_loop ends with that exception
FinalPlot(seg, ok) == IF store_plots THEN <<PlotCall(seg, "final", ok)>> ELSE <<>>

AfterFinalPlot(ok) == IF ok THEN "stopped" ELSE OnPlotException

\* lines 232-236, with the finally block of lines 84-89 on the way out:
\* KeyboardInterrupt is raised at the statement being run, is not an
\* Exception (line 216 does not catch it), and ends the loop after the final
\* plot.  During the write the temporary file is removed by the finally
\* block, or stays (the interrupt came before the try of line 80, or
\* os.remove failed).
Interrupt ==
    /\ wpc \in {"top", "acquire", "dump", "move", "rotate", "sleep"}
    /\ IF wpc \in {"dump", "move"}
       THEN files' \in AfterFinally(files, tmp, json_path)
       ELSE files' = files
    /\ halt' = [at |-> wpc, seg |-> json_path,
                found |-> Content(files', json_path), before |-> pre,
                after |-> ListFile(JsonDumpRows(payload))]
    /\ \E ok \in BOOLEAN :
          /\ ok \/ store_plots
          /\ handoffs' = handoffs \o FinalPlot(json_path, ok)
          /\ wpc' = AfterFinalPlot(ok)
    /\ tmp' = NoName
    /\ q' = NoQuery
    /\ UNCHANGED <<clock, now, cycle_start, json_path, sensor, payload, faults,
                   rvars, hvars, store_plots, closed>>

\* lines 191-198, before the try of line 200: KeyboardInterrupt is caught
\* by nothing, main_loop ends with it and no final plot is made; cycle_start
\* and json_path have been assigned (line 198) or not yet (line 193)
InterruptBoot ==
    /\ wpc = "boot"
    /\ \E assigned \in BOOLEAN :
          /\ cycle_start' = IF assigned THEN clock ELSE cycle_start
          /\ json_path' = IF assigned THEN SegmentName(clock) ELSE json_path
    /\ halt' = [at |-> wpc, seg |-> json_path', found |-> Content(files, json_path'),
                before |-> pre, after |-> ListFile(JsonDumpRows(payload))]
    /\ wpc' = "dead"
    /\ q' = NoQuery
    /\ UNCHANGED <<clock, files, now, sensor, payload, tmp, faults, rvars, hvars,
                   store_plots, handoffs, closed>>

\* lines 220-227 left by KeyboardInterrupt while the rotation is being made:
\* inside plot_day (line 224), after it and before line 226, or between
\* lines 226 and 227, where cycle_start is new and json_path still the old
\* one.  The final plot is always of the old json_path.
InterruptRotating(lim) ==
    /\ wpc = "rotate"
    /\ ShouldRotate(now, cycle_start)
    /\ \E at \in {"plot", "switch", "path"}, ok \in BOOLEAN, d \in 0..MaxLag :
          /\ ok \/ store_plots
          /\ at \in {"plot", "switch"} => (store_plots /\ d = 0)
          /\ clock + d <= lim
          /\ clock' = clock + d
          /\ cycle_start' = IF at = "path" THEN NextCycleStart(now, clock')
                             ELSE cycle_start
          /\ handoffs' = handoffs
                            \o (IF store_plots
                                THEN <<PlotCall(json_path, "cycle", at # "plot")>>
                                ELSE <<>>)
                            \o FinalPlot(json_path, ok)
          /\ wpc' = AfterFinalPlot(ok)
    /\ halt' = [at |-> wpc, seg |-> json_path,
                found |-> Content(files, json_path), before |-> pre,
                after |-> ListFile(JsonDumpRows(payload))]
    /\ q' = NoQuery
    /\ UNCHANGED <<files, now, json_path, sensor, payload, tmp, faults,
                   rvars, hvars, store_plots, closed>>

\* an external actor damages a segment file; not while an append is under way
Corrupt ==
    /\ ~AppendInFlight
    /\ wpc # "rotate"
    /\ faults < MaxFaults
    /\ \E n \in DOMAIN files :
          /\ IsSegmentName(n)
          /\ files[n].kind = "list"
          /\ files' = [files EXCEPT ![n] = Unparsable]
          /\ spoiled' = spoiled \cup {n}
    /\ faults' = faults + 1
    /\ q' = NoQuery
    /\ UNCHANGED <<pvars, clock, wvars, rvars, pre, cur, appended, dropped, crash>>

(***************************************************************************)
(* load_data, as one call during which the writer takes no step.  The call *)
(* runs in the web server's process, at any position of the writer.        *)
(***************************************************************************)
\* what the call opened, in order
ReadLog(fs, names) ==
    [i \in 1..Len(names) |-> [name |-> names[i], content |-> Content(fs, names[i])]]

Query(T) ==
    /\ rpc = "idle"
    /\ \E s \in T, e \in T :
          /\ s <= e
          /\ q' = [start |-> s, stop |-> e, out |-> load_data(files, s, e),
                   base |-> [appended |-> appended, active |-> json_path],
                   log |-> ReadLog(files, RelevantFiles(files, s, e))]
    /\ UNCHANGED <<pvars, clock, files, wvars, faults, rvars, hvars>>

(***************************************************************************)
(* load_data, file by file, beside a running writer.                       *)
(***************************************************************************)
\* lines 19-47: the listing and the candidate files
ReaderBegin(T) ==
    /\ rpc = "idle"
    /\ \E s \in T, e \in T :
          /\ s <= e
          /\ rwin' = <<s, e>>
          /\ rnames' = RelevantFiles(files, s, e)
    /\ rcombined' = <<>>
    /\ rseen' = NoSeen
    /\ rlog' = <<>>
    /\ rbase' = [appended |-> appended, active |-> json_path]
    /\ rpc' = "load"
    /\ q' = NoQuery
    /\ UNCHANGED <<pvars, clock, files, wvars, faults, hvars>>

\* lines 50-57, one file
ReaderLoad ==
    /\ rpc = "load"
    /\ rnames # <<>>
    /\ LET name == Head(rnames)
           c == Content(files, name)
       IN  /\ rcombined' = Extend(rcombined, c)
           /\ rlog' = Append(rlog, [name |-> name, content |-> c])
           /\ rseen' = [name |-> name, content |-> c,
                        inflight |-> (AppendInFlight /\ json_path = name),
                        before |-> pre,
                        after |-> ListFile(JsonDumpRows(payload))]
    /\ rnames' = Tail(rnames)
    /\ UNCHANGED <<pvars, clock, files, wvars, faults, q, rpc, rwin, rbase,
                   hvars>>

\* lines 59-76
ReaderFinish ==
    /\ rpc = "load"
    /\ rnames = <<>>
    /\ q' = [start |-> rwin[1], stop |-> rwin[2],
             out |-> FilterAndSort(rcombined, rwin[1], rwin[2]),
             base |-> rbase, log |-> rlog]
    /\ rpc' = "idle"
    /\ rwin' = <<0, 0>>
    /\ rcombined' = <<>>
    /\ rseen' = NoSeen
    /\ rlog' = <<>>
    /\ rbase' = NoBase
    /\ UNCHANGED <<pvars, clock, files, wvars, faults, rnames, hvars>>

\* the writer on a steady sensor, and queries that begin at any of its
\* positions and go on file by file while it goes on; a query during which
\* the writer takes no step is ReaderBegin, ReaderLoad.., ReaderFinish in a
\* row and ends in the state Query gives
Next ==
    \/ Boot
    \/ TopResolved
    \/ TopUnresolved
    \/ Acquire(MaxTime, Steady)
    \/ Dump
    \/ Move
    \/ RotateYes(MaxTime)
    \/ RotateNo
    \/ Sleep(MaxTime)
    \/ ReaderBegin(Times)
    \/ ReaderLoad
    \/ ReaderFinish

Spec == Init /\ [][Next]_vars

\* main_loop alone on a steady sensor: load_data writes nothing, so the
\* loop's steps and the folder are the same with and without queries
NextLoop ==
    \/ Boot
    \/ TopResolved
    \/ TopUnresolved
    \/ Acquire(MaxTime, Steady)
    \/ Dump
    \/ Move
    \/ RotateYes(MaxTime)
    \/ RotateNo
    \/ Sleep(MaxTime)

SpecLoop == Init /\ [][NextLoop]_vars

\* the writer under kills, I/O errors and external damage
NextFault ==
    \/ Boot
    \/ TopResolved
    \/ TopUnresolved
    \/ Acquire(ShortMaxTime, Steady)
    \/ Dump
    \/ Move
    \/ AcquireFail(ShortMaxTime, Steady)
    \/ AcquireReadFail(ShortMaxTime, Steady)
    \/ WriteFail
    \/ RotateYes(ShortMaxTime)
    \/ RotateNo
    \/ Sleep(ShortMaxTime)
    \/ Kill
    \/ Corrupt

SpecFault == Init /\ [][NextFault]_vars

\* the writer with either setting of store_plots, interrupts and failing plots
InitStop == Start /\ store_plots \in BOOLEAN

NextStop ==
    \/ Boot
    \/ TopResolved
    \/ TopUnresolved
    \/ Acquire(MaxTime, Steady)
    \/ Dump
    \/ Move
    \/ RotateYes(MaxTime)
    \/ PlotFail
    \/ RotateNo
    \/ Sleep(MaxTime)
    \/ Interrupt
    \/ InterruptBoot
    \/ InterruptRotating(MaxTime)

SpecStop == InitStop /\ [][NextStop]_vars

\* the writer and the reader, file by file, on a folder that an external
\* actor damages between any two of their steps
NextDamage ==
    \/ Boot
    \/ TopResolved
    \/ TopUnresolved
    \/ Acquire(ShortMaxTime, Steady)
    \/ Dump
    \/ Move
    \/ RotateYes(ShortMaxTime)
    \/ RotateNo
    \/ Sleep(ShortMaxTime)
    \/ Corrupt
    \/ ReaderBegin(ShortTimes)
    \/ ReaderLoad
    \/ ReaderFinish

SpecDamage == Init /\ [][NextDamage]_vars

\* the writer on a sensor whose attributes come and go
NextSensor ==
    \/ Boot
    \/ TopResolved
    \/ TopUnresolved
    \/ Acquire(ShortMaxTime, Samples)
    \/ Dump
    \/ Move
    \/ RotateYes(ShortMaxTime)
    \/ RotateNo
    \/ Sleep(ShortMaxTime)
    \/ ReaderBegin(ShortTimes)
    \/ ReaderLoad
    \/ ReaderFinish

SpecSensor == Init /\ [][NextSensor]_vars

\* the writer and a query that runs beside it, one file read at a time
NextConc ==
    \/ Boot
    \/ TopResolved
    \/ TopUnresolved
    \/ Acquire(ShortMaxTime, Steady)
    \/ Dump
    \/ Move
    \/ RotateYes(ShortMaxTime)
    \/ RotateNo
    \/ Sleep(ShortMaxTime)
    \/ ReaderBegin(ShortTimes)
    \/ ReaderLoad
    \/ ReaderFinish

SpecConc == Init /\ [][NextConc]_vars

(***************************************************************************)
(* load_data over any store: the data folder holds up to two segment       *)
(* files, each missing, unparsable, or a list of rows (the older up to     *)
(* MaxRows rows, the newer up to one), and the rows are whatever somebody  *)
(* wrote there.                                                            *)
(***************************************************************************)
Row(tsvalue, temp) ==
    [ts |-> tsvalue, temperature_c |-> JsonNumber(temp),
     humidity_rh |-> JsonNull, battery_percentage |-> JsonNull]

\* a timestamp written without leading zeros, which strptime accepts
Digits(n) == IF n < 10 THEN <<48 + n>> ELSE Pad2(n)
NoPad(t) == Digits(Day(t)) \o LetterT \o Digits(Tod(t)) \o LetterZ

\* a timestamp in a form strptime accepts and the writer never writes: the
\* day padded with a space or ending in an Arabic-Indic digit, the hour as
\* one Arabic-Indic digit, the letters in lower case
LenientDay(n) == IF n < 10 THEN <<32, 48 + n>> ELSE <<48 + (n \div 10), 1632 + (n % 10)>>
Lenient(t) == LenientDay(Day(t)) \o <<116>> \o <<1632 + Tod(t)>> \o <<122>>

\* the text "now", which strptime rejects
NotATime == <<110, 111, 119>>

StoredRows ==
    { Row(JsonString(IsoFormatZ(Epoch + 1)), 1),
      Row(JsonString(IsoFormatZ(Epoch + 1)), 2),
      Row(JsonString(IsoFormatZ(Epoch + DayLen)), 3),
      Row(JsonString(NoPad(Epoch + 1)), 4),
      Row(JsonString(Lenient(Epoch + 1)), 9),
      Row(JsonString(NotATime), 5),
      Row(JsonNumber(7), 6),
      [temperature_c |-> JsonNumber(8)] }

RowLists(len) == UNION {[1..n -> StoredRows] : n \in 0..len}

StoredFiles(len) == {Absent, Unparsable} \cup {ListFile(r) : r \in RowLists(len)}

OlderName == SegmentName(Epoch)
NewerName == SegmentName(Epoch + DayLen)

Stores ==
    { [n \in {m \in {OlderName, NewerName} :
                 (IF m = OlderName THEN a ELSE b) # Absent} |->
          IF n = OlderName THEN a ELSE b] :
         a \in StoredFiles(MaxRows), b \in StoredFiles(1) }

InitQuery ==
    /\ clock = ShortMaxTime
    /\ files \in Stores
    /\ wpc = "sleep"
    /\ now = clock
    /\ cycle_start = clock
    /\ json_path = NoName
    /\ sensor = FALSE
    /\ payload = <<>>
    /\ tmp = NoName
    /\ faults = 0
    /\ q = NoQuery
    /\ rpc = "idle"
    /\ rwin = <<0, 0>>
    /\ rnames = <<>>
    /\ rcombined = <<>>
    /\ rseen = NoSeen
    /\ rlog = <<>>
    /\ rbase = NoBase
    /\ pre = Absent
    /\ cur = NoSample
    /\ appended = {}
    /\ dropped = {}
    /\ crash = NoCrash
    /\ spoiled = {}
    /\ store_plots = FALSE
    /\ handoffs = <<>>
    /\ closed = {}
    /\ halt = NoHalt

NextQuery == Query(ShortTimes)

SpecQuery == InitQuery /\ [][NextQuery]_vars

(***************************************************************************)
(* Properties.                                                             *)
(***************************************************************************)
Asked == q.out.status # "none"
InWindow(t) == q.start <= t /\ t <= q.stop
ReturnedAt(t) == {i \in 1..Len(q.out.rows) : q.out.rows[i].ts = PyStr(IsoFormatZ(t))}

\* C1: every reading the loop had appended to the segment that was the
\* active one when a query began is among the results of that query if its
\* range holds the reading's timestamp.
C1_AppendedIsReturned ==
    Asked =>
        \A a \in q.base.appended :
            (a.seg = q.base.active /\ InWindow(a.t)) => ReturnedAt(a.t) # {}

\* C6: a query whose range holds readings of the segment before a rotation
\* and of the segment after it, all appended before the query began, returns
\* every one of them exactly once, and its results are in time order.
SpansRotation ==
    \E a, b \in q.base.appended :
        a.seg # b.seg /\ InWindow(a.t) /\ InWindow(b.t)

C6_MergedAcrossRotation ==
    (Asked /\ SpansRotation) =>
        /\ \A a \in q.base.appended :
              InWindow(a.t) => Cardinality(ReturnedAt(a.t)) = 1
        /\ \A i \in 1..(Len(q.out.rows) - 1) :
              StrptimeTs(q.out.rows[i].ts.v) <= StrptimeTs(q.out.rows[i + 1].ts.v)

Rotated == cycle_start' # cycle_start \/ json_path' # json_path

\* C10 as claimed: the rotation check of a tick rotates exactly when
\* (now - cycle_start) >= cycle_duration, and the rotation sets cycle_start to
\* that tick's `now` and the active segment to the encoding of that `now`.
C10_RotatesToNow ==
    [][(wpc = "rotate" /\ wpc' = "sleep") =>
          /\ Rotated <=> (now - cycle_start >= SecondsPerCycle)
          /\ Rotated => (cycle_start' = now /\ json_path' = SegmentName(now))]_vars

\* C10 as amended: a tick that holds the sensor rotates exactly when
\* (now - cycle_start) >= cycle_duration, after that tick's append; a tick
\* that cannot resolve the sensor does not rotate.  A rotation sets
\* cycle_start to a clock reading taken at the rotation, not before the
\* tick's `now`, and the active segment to the encoding of that reading.
\* Every append writes the segment named by the current cycle_start.
C10_RotatesToFreshClock ==
    [][/\ (wpc = "rotate" /\ wpc' = "sleep") =>
             /\ Rotated <=> (now - cycle_start >= SecondsPerCycle)
             /\ Rotated => /\ cycle_start' = clock'
                           /\ cycle_start' >= now
                           /\ json_path' = SegmentName(cycle_start')
       /\ (wpc = "top" /\ wpc' = "sleep") => ~Rotated
       /\ (wpc = "move" /\ wpc' = "rotate") =>
             /\ json_path = SegmentName(cycle_start)
             /\ files'[json_path].kind = "list"
             /\ files'[json_path].rows[Len(files'[json_path].rows)].ts
                   = JsonString(IsoFormatZ(cur.t))]_vars

\* a rotation happened later than its tick's `now`, and a later tick has
\* appended to the segment it opened
C10_Witness ==
    /\ \E b \in appended : b.seg = json_path /\ b.t >= cycle_start
    /\ \E a \in appended : a.seg # json_path
    /\ \A a \in appended : a.seg # json_path => a.t < cycle_start

\* C2: a kill at any step of an append leaves the segment file holding
\* either exactly what it held before the call or exactly the list with the
\* new reading; a file that parsed before the call parses on restart.
C2_KillLeavesWholeSegment ==
    crash.seg # NoName =>
        /\ crash.found \in {crash.before, crash.after}
        /\ crash.before.kind # "garbage" => crash.found.kind # "garbage"

\* killed between the creation of the temporary file and the move, with
\* readings already in the segment, and started again
C2_Witness ==
    /\ crash.seg # NoName
    /\ crash.before.kind = "list"
    /\ crash.found = crash.before
    /\ crash.after # crash.before
    /\ wpc = "top"

\* C3: whatever the writer is doing, a query's read of a segment file gets
\* a complete list: the content from before the append under way or the
\* content after it; and the query does not raise.  (The reader takes no
\* lock: its steps have no guard on the writer's state.)
C3_ReadsSeeWholeSegments ==
    /\ rseen.inflight => rseen.content \in {rseen.before, rseen.after}
    /\ rseen.name # NoName => rseen.content.kind = "list"
    /\ q.out.status # "error"

\* the active segment was read while its temporary file was being written
C3_Witness ==
    /\ rseen.inflight
    /\ wpc = "dump"
    /\ rseen.name = json_path
    /\ rseen.content = rseen.before
    /\ rseen.before.kind = "list"

Rows(name) == {files[name].rows[i] : i \in 1..Len(files[name].rows)}
Results == {q.out.rows[i] : i \in 1..Len(q.out.rows)}
TsParses(row) ==
    "ts" \in DOMAIN row /\ row.ts.k = "string" /\ StrptimeTs(row.ts.v) # BadTime
Loaded == {n \in DOMAIN files : IsCandidate(n, q.start, q.stop) /\ files[n].kind = "list"}
Skipped == {n \in DOMAIN files : IsCandidate(n, q.start, q.stop) /\ files[n].kind = "garbage"}

\* C4: every returned reading has start <= ts <= end, and every stored
\* reading of a loaded candidate segment whose timestamp parses and lies in
\* the range is returned.
C4_ClosedRangeFilter ==
    Asked =>
        /\ \A r \in Results : InWindow(StrptimeTs(r.ts.v))
        /\ \A n \in Loaded : \A row \in Rows(n) :
              (TsParses(row) /\ InWindow(StrptimeTs(row.ts.v)))
                  => JsonLoadRow(row) \in Results

\* C5 as claimed: each returned reading's timestamp is strictly greater
\* than that of the reading before it.
C5_StrictlyAscending ==
    q.out.status = "ok" =>
        \A i \in 1..(Len(q.out.rows) - 1) :
            StrptimeTs(q.out.rows[i].ts.v) < StrptimeTs(q.out.rows[i + 1].ts.v)

FixedWidth(r) ==
    StrptimeTs(r.ts.v) # BadTime /\ r.ts.v = IsoFormatZ(StrptimeTs(r.ts.v))

Merged == CombinedData(files, RelevantFiles(files, q.start, q.stop))

\* C5 as amended: the returned sequence is in ascending order of the ts
\* text, readings with equal ts text in the order they were loaded; for
\* timestamps in the writer's fixed-width form that is ascending, not
\* strictly, by time.
C5_AscendingByTsText ==
    q.out.status = "ok" =>
        \A i, j \in 1..Len(q.out.rows) :
            i < j =>
                /\ LexLeq(q.out.rows[i].ts.v, q.out.rows[j].ts.v)
                /\ (FixedWidth(q.out.rows[i]) /\ FixedWidth(q.out.rows[j]))
                      => StrptimeTs(q.out.rows[i].ts.v) <= StrptimeTs(q.out.rows[j].ts.v)
                /\ q.out.rows[i].ts = q.out.rows[j].ts
                      => \E m, n \in 1..Len(Merged) :
                            m < n /\ Merged[m] = q.out.rows[i] /\ Merged[n] = q.out.rows[j]

\* two different readings with the same timestamp were returned, ahead of
\* a later reading that was stored in front of them
C5_Witness ==
    /\ q.out.status = "ok"
    /\ Len(q.out.rows) = 3
    /\ q.out.rows[1].ts = q.out.rows[2].ts
    /\ q.out.rows[1] # q.out.rows[2]
    /\ Merged[1] = q.out.rows[3]

\* C7: a returned reading holds, field by field, what the sensor held when
\* it was acquired: an attribute that was unset is None, never 0.0 or any
\* other number, whatever the other two fields are.
C7_AbsenceRoundTrips ==
    q.out.status = "ok" =>
        \A r \in Results :
            \E a \in appended :
                /\ r.ts = PyStr(IsoFormatZ(a.t))
                /\ r.temperature_c = a.attrs.current_temperature
                /\ r.humidity_rh = a.attrs.current_r_h
                /\ r.battery_percentage = a.attrs.battery_percentage

\* one query returned a reading without temperature and battery but with
\* humidity, and a reading with temperature zero and no humidity
C7_Witness ==
    /\ q.out.status = "ok"
    /\ \E r \in Results :
          /\ r.temperature_c = PyNone
          /\ r.battery_percentage = PyNone
          /\ r.humidity_rh = PyFloat(45)
    /\ \E r \in Results :
          /\ r.temperature_c = PyFloat(0)
          /\ r.humidity_rh = PyNone

\* the reads of the last call that found a file that does not load
ReadBad == {i \in 1..Len(q.log) : q.log[i].content.kind = "garbage"}

\* C8: a query that found an unparsable candidate segment does not raise,
\* and returns the in-range readings of every other candidate as it read it.
C8_UnparsableSegmentSkipped ==
    (Asked /\ ReadBad # {}) =>
        /\ q.out.status = "ok"
        /\ \A i \in 1..Len(q.log) : \A k \in 1..Len(q.log[i].content.rows) :
              InWindow(StrptimeTs(q.log[i].content.rows[k].ts.v))
                  => JsonLoadRow(q.log[i].content.rows[k]) \in Results

\* a query read an intact segment, then a damaged one, and returned readings
C8_Witness ==
    /\ Asked
    /\ Len(q.log) = 2
    /\ ReadBad = {2}
    /\ Len(q.out.rows) > 0

SegmentFiles(fs) == {n \in DOMAIN fs : IsSegmentName(n)}

\* C9: a tick whose append raises goes on to the rotation check and the
\* next tick, with every segment file as it was before the tick (the stored
\* data lacks that one reading and nothing else); nothing ends the loop.
C9_FailedSampleIsSkipped ==
    [][/\ wpc' # "dead"
       /\ dropped' # dropped =>
             /\ wpc' = "rotate"
             /\ SegmentFiles(files') = SegmentFiles(files)
             /\ \A n \in SegmentFiles(files) : files'[n] = files[n]
             /\ DOMAIN files' \subseteq DOMAIN files]_vars

IsFinal(h) == h.kind = "final"

\* C11: when an interrupt that arrived during an append (temporary file
\* created, move not yet made) has stopped the loop, the append has been
\* completed, and the active segment was handed to plot_day exactly once as
\* the final flush, as the last call made.
C11_InterruptCompletesAppend ==
    (wpc = "stopped" /\ halt.at \in {"dump", "move"}) =>
        /\ halt.found = halt.after
        /\ Len(SelectSeq(handoffs, IsFinal)) = 1
        /\ handoffs[Len(handoffs)] = PlotCall(json_path, "final", TRUE)

\* C12: a plot_day call made for a rotation, failed or not, is followed by
\* the adoption of the new active segment and the sleep before the next tick.
C12_PlotFailureIsIgnored ==
    [][(Len(handoffs') > Len(handoffs) /\ handoffs'[Len(handoffs')].kind = "cycle") =>
          /\ wpc' = "sleep"
          /\ json_path' # json_path
          /\ json_path' = SegmentName(cycle_start')]_vars

\* C13: an I/O error raised while the segment is being written ends the loop.
C13_WriteErrorEndsLoop ==
    [][dropped' # dropped => wpc' = "dead"]_vars

\* the stored rows of a segment file whose timestamp lies in [start_dt, end_dt]
RowsWithin(c, start_dt, end_dt) ==
    {i \in 1..Len(c.rows) :
        LET t == StrptimeTs(c.rows[i].ts.v)
        IN  t # BadTime /\ start_dt <= t /\ t <= end_dt}

\* C14: in every folder the writer produces with a cycle of one day, and for
\* every range, a segment file holding a reading of the range is a candidate
\* of load_data: its name's day is between start.date - 1 day and end.date.
C14_CandidatesCoverRange ==
    \A n \in SegmentFiles(files) :
        \A s \in Times, e \in Times :
            (s <= e /\ files[n].kind = "list" /\ RowsWithin(files[n], s, e) # {})
                => IsCandidate(n, s, e)

\* the stored list a call of append_reading found, as rows
Prior == IF pre.kind = "list" THEN pre.rows ELSE <<>>

\* the readings the loop appended to segment n, as a set of stored rows
AppendedRows(n) ==
    {JsonDumpRow(read_sensor_values(a.t, a.attrs)) : a \in {b \in appended : b.seg = n}}

\* C15: the move of a successful append to a segment whose file was never
\* damaged turns the segment's stored list L into L followed by the new
\* reading and leaves every other segment file as it was; and while no
\* append to the segment has failed, the segment holds exactly the readings
\* appended to it, in append order.
Undamaged(n) == n \notin spoiled

NoFailedAppend == dropped = {}

C15_AppendExtendsList ==
    [][(wpc = "move" /\ wpc' = "rotate" /\ appended' # appended
            /\ Undamaged(json_path)) =>
          /\ files'[json_path] =
                ListFile(Prior \o <<JsonDumpRow(read_sensor_values(cur.t, cur.attrs))>>)
          /\ SegmentFiles(files') = SegmentFiles(files) \cup {json_path}
          /\ \A n \in SegmentFiles(files) \ {json_path} : files'[n] = files[n]
          /\ NoFailedAppend =>
                \A n \in SegmentFiles(files') :
                   Undamaged(n) =>
                      /\ {files'[n].rows[i] : i \in 1..Len(files'[n].rows)}
                            = AppendedRows(n)'
                      /\ \A i, j \in 1..Len(files'[n].rows) :
                            i < j => StrptimeTs(files'[n].rows[i].ts.v)
                                        < StrptimeTs(files'[n].rows[j].ts.v)]_vars

\* C16: the rotation check that rotates adopts a segment name that no
\* earlier segment had and that names no file yet; and no step changes,
\* creates or removes the file of a segment the loop has rotated away from.
C16_RotationNamesAreNew ==
    [][/\ (wpc = "rotate" /\ wpc' = "sleep" /\ ShouldRotate(now, cycle_start)) =>
             /\ json_path' \notin closed'
             /\ json_path \in closed'
             /\ json_path' \notin DOMAIN files'
       /\ \A n \in closed :
             /\ (n \in DOMAIN files) = (n \in DOMAIN files')
             /\ n \in DOMAIN files => files'[n] = files[n]]_vars

\* two rotations were made and a reading went to the third segment
C16_Witness ==
    /\ Cardinality(closed) = 2
    /\ closed \subseteq DOMAIN files
    /\ json_path \in DOMAIN files
    /\ json_path \notin closed

\* C17: a tick that finds the file of the active segment unparsable goes on
\* to write (it does not raise), with a list of the one new reading; and
\* after the move, when no I/O error stops the write, the segment holds
\* exactly that reading.
C17_DamagedHistoryIsEmpty ==
    [][/\ (wpc = "acquire" /\ wpc' = "dump" /\ Content(files, json_path).kind = "garbage")
             => payload' = <<read_sensor_values(cur'.t, cur'.attrs)>>
       /\ (wpc = "move" /\ wpc' = "rotate" /\ faults' = faults /\ pre.kind = "garbage")
             => files'[json_path] =
                   ListFile(<<JsonDumpRow(read_sensor_values(cur.t, cur.attrs))>>)]_vars

\* a segment that held a reading was damaged, and the next append left it
\* with the new reading alone
C17_Witness ==
    /\ wpc = "rotate"
    /\ pre.kind = "garbage"
    /\ json_path \in spoiled
    /\ \E a \in appended : a.seg = json_path /\ a.t < cur.t
    /\ Content(files, json_path).kind = "list"
    /\ Len(Content(files, json_path).rows) = 1

\* the stored rows of the loaded candidates whose timestamp does not parse:
\* a malformed string, a value that is no string, or no ts field
BadRows == {row \in UNION {Rows(n) : n \in Loaded} : ~TsParses(row)}

\* C18: a query over candidates that hold a row whose timestamp does not
\* parse returns normally, without that row and with every in-range row
\* whose timestamp parses.
C18_BadTimestampIsDropped ==
    (Asked /\ BadRows # {}) =>
        /\ q.out.status = "ok"
        /\ \A row \in BadRows : JsonLoadRow(row) \notin Results
        /\ \A n \in Loaded : \A row \in Rows(n) :
              (TsParses(row) /\ InWindow(StrptimeTs(row.ts.v)))
                  => JsonLoadRow(row) \in Results

\* the last row of the active segment's file
LastStored(fs, path) == Content(fs, path).rows[Len(Content(fs, path).rows)]

\* C19: a tick that does not get the sensor appends nothing and goes to the
\* sleep (the loop does not end); the sleep lasts at least the interval; the
\* tick that gets the sensor goes on to read it, and when its append returns
\* the reading of that tick is the last one of the active segment.
C19_UnresolvedTickRetries ==
    [][/\ (wpc = "top" /\ ~sensor') =>
             (wpc' = "sleep" /\ files' = files /\ appended' = appended)
       /\ (wpc = "sleep" /\ wpc' = "top") => clock' >= clock + Interval
       /\ (wpc = "top" /\ ~sensor /\ sensor') => wpc' = "acquire"
       /\ (wpc # "rotate" /\ wpc' = "rotate") =>
             /\ cur'.t >= now'
             /\ Content(files', json_path').kind = "list"
             /\ LastStored(files', json_path') =
                   JsonDumpRow(read_sensor_values(cur'.t, cur'.attrs))]_vars

\* after at least one tick without the sensor, the first reading was appended
C19_Witness ==
    /\ wpc = "rotate"
    /\ now > cycle_start
    /\ appended = {[seg |-> json_path, t |-> cur.t, attrs |-> cur.attrs]}
    /\ Len(Content(files, json_path).rows) = 1

\* C20: a tick that does not get the sensor leaves cycle_start and the
\* active segment alone and does not reach the rotation check; and the
\* loop changes them only on a tick that holds the sensor and has appended
\* its reading to the segment that was active.
C20_UnresolvedTickSkipsRotation ==
    [][/\ (wpc = "top" /\ ~sensor') =>
             /\ json_path' = json_path
             /\ cycle_start' = cycle_start
             /\ closed' = closed
             /\ wpc' # "rotate"
       /\ (wpc # "boot" /\ (json_path' # json_path \/ cycle_start' # cycle_start)) =>
             /\ sensor
             /\ \E a \in appended : a.seg = json_path /\ a.t >= now]_vars

\* the sensor was missing on a tick at which the cycle was already over,
\* and the first reading then went to the segment of the start
C20_Witness ==
    /\ wpc = "rotate"
    /\ now - cycle_start >= SecondsPerCycle + Interval + MaxLag
    /\ closed = {}
    /\ appended = {[seg |-> SegmentName(cycle_start), t |-> cur.t, attrs |-> cur.attrs]}
    /\ json_path = SegmentName(cycle_start)

=============================================================================
